---- MODULE Spec2Model ----
(***************************************************************************)
(* Capture-and-result lifecycle of the receipt reader page                 *)
(* (src/src/app/page.tsx, component Home).                                 *)
(*                                                                         *)
(* The component state (useState / useRef) is the state of the machine.    *)
(* Every event handler and every asynchronous continuation (FileReader     *)
(* onloadend, canvas.toBlob callback, getUserMedia settlement, the awaits  *)
(* of processDocument) is one action: the page runs on one thread, so a    *)
(* handler or continuation runs to its next await without interleaving.    *)
(***************************************************************************)
EXTENDS Naturals, Sequences, FiniteSets, TLC

\* ---------------------------------------------------------------- bounds
\* Number of FileReader reads the operator may start in one behaviour.
MaxReads == 2
\* Number of submissions the operator may start in one behaviour.
MaxSubmits == 2
\* Number of getUserMedia requests the operator may start in one behaviour.
MaxCamRequests == 2

\* ----------------------------------------------------------- plain values
\* JavaScript null for the nullable state slots: a slot is <<>> or <<value>>.
Null == <<>>
Some(x) == <<x>>
Val(slot) == slot[1]

\* FileReader.result after a failed read (preview: reader.result as string).
NullPreview == "null"

\* Files the operator can pick in the file dialog.
Files ==
  { [name |-> "a.jpg", type |-> "image/jpeg",      size |-> 500000],
    [name |-> "b.pdf", type |-> "application/pdf", size |-> 0] }

\* Sizes the JPEG encoder may give the captured frame.
BlobSizes == {1152, 2097152}

\* new File([blob], 'captura.jpg', { type: 'image/jpeg' })
CaptureFile(blobSize) ==
  [name |-> "captura.jpg", type |-> "image/jpeg", size |-> blobSize]

\* Bodies the upload endpoint answers with on success (result.data).
Responses == {"receipt-1", "receipt-2"}

\* Messages the endpoint may put in an error body.
ServerMessages == {"bad file"}
\* An error body without a usable message (absent or empty: falsy in JS).
NoMessage == ""

GenericError == "Error al procesar el documento"
CameraError  == "No se pudo acceder a la cámara"
NoAlert      == "(none)"

\* ------------------------------------------------------------ formatBytes
RECURSIVE Pow(_, _)
Pow(b, e) == IF e = 0 THEN 1 ELSE b * Pow(b, e - 1)

\* Math.floor(Math.log(bytes) / Math.log(1024)) for bytes >= 1.
RECURSIVE FloorLog1024(_)
FloorLog1024(bytes) == IF bytes < 1024 THEN 0 ELSE 1 + FloorLog1024(bytes \div 1024)

\* const sizes = ['Bytes', 'KB', 'MB']; sizes[i] for i past the end is undefined.
SizeUnit(i) ==
  CASE i = 0 -> "Bytes"
    [] i = 1 -> "KB"
    [] i = 2 -> "MB"
    [] OTHER -> "undefined"

\* (x).toFixed(2) of the quotient num/den, in hundredths, ties rounded up
\* (the quotient by a power of 1024 is exact in a double). The division is
\* done on the remainder, and in two steps of 1024 for den above 1024^2, so
\* that no intermediate value exceeds 32 bits.
ToFixed2(num, den) ==
  LET q   == num \div den
      rem == num % den
      hundredthsOfRem ==
        IF den <= 1048576
          THEN (200 * rem + den) \div (2 * den)
          ELSE LET d == den \div 1024
                   a == rem \div 1024
                   b == rem % 1024
               IN  (100 * a + d \div 2 + (100 * b) \div 1024) \div d
  IN  100 * q + hundredthsOfRem

\* The formatted size as the pair (hundredths of the printed number, unit):
\* parseFloat(...toFixed(2)) prints hundredths without trailing zeros.
formatBytes(bytes) ==
  IF bytes = 0
    THEN [hundredths |-> 0, unit |-> "KB"]
    ELSE LET i == FloorLog1024(bytes)
         IN  [hundredths |-> ToFixed2(bytes, Pow(1024, i)), unit |-> SizeUnit(i)]

\* ------------------------------------------------------------------ state
VARIABLES
  selectedFile,    \* useState<PreviewFile | null>          (line 57)
  isProcessing,    \* useState(false)                       (line 58)
  result,          \* useState<DocumentResponse | null>     (line 59)
  isCameraActive,  \* useState(false)                       (line 62)
  srcObject,       \* videoRef.current.srcObject, Null when no stream is bound
  liveStreams,     \* camera streams whose tracks have not been stopped
  camRequests,     \* getUserMedia promises not yet settled
  blobRequests,    \* canvas.toBlob callbacks not yet run
  reads,           \* FileReader reads not yet ended
  submissions,     \* processDocument calls between setIsProcessing(true) and finally
  alertMsg,        \* text of the last alert() shown
  nReads,          \* reads started so far
  nSubmits,        \* submissions started so far
  nCamRequests     \* camera requests started so far (also names the streams)

vars == << selectedFile, isProcessing, result, isCameraActive, srcObject,
           liveStreams, camRequests, blobRequests, reads, submissions,
           alertMsg, nReads, nSubmits, nCamRequests >>

camVars  == << isCameraActive, srcObject, liveStreams, camRequests, nCamRequests >>
readVars == << reads, nReads >>
subVars  == << submissions, nSubmits, isProcessing >>

\* The <video ref={videoRef}> element exists only in the branch rendered
\* when isCameraActive, so videoRef.current is non-null exactly then.
videoRefCurrent == isCameraActive

Init ==
  /\ selectedFile = Null
  /\ isProcessing = FALSE
  /\ result = Null
  /\ isCameraActive = FALSE
  /\ srcObject = Null
  /\ liveStreams = {}
  /\ camRequests = 0
  /\ blobRequests = 0
  /\ reads = {}
  /\ submissions = {}
  /\ alertMsg = NoAlert
  /\ nReads = 0
  /\ nSubmits = 0
  /\ nCamRequests = 0

\* States in which the video element is mounted with a stream bound to it:
\* what the render condition of the Capturar button (line 199) presupposes.
\* captureImage and the toBlob callback are exercised from here (SpecCam).
InitCam ==
  /\ selectedFile = Null
  /\ isProcessing = FALSE
  /\ result = Null
  /\ isCameraActive = TRUE
  /\ srcObject = Some(0)
  /\ liveStreams = {0}
  /\ camRequests = 0
  /\ blobRequests = 0
  /\ reads = {}
  /\ submissions = {}
  /\ alertMsg = NoAlert
  /\ nReads = 0
  /\ nSubmits = 0
  /\ nCamRequests = 1

\* ------------------------------------------------------- input normalizer
\* reader.result of a completed readAsDataURL.
DataURL(file) == "data:" \o file.type \o ";base64," \o file.name

\* handleFileSelect up to readAsDataURL: a fresh FileReader starts reading.
handleFileSelect(file) ==
  /\ nReads < MaxReads
  /\ reads' = reads \cup {[id |-> nReads, file |-> file]}
  /\ nReads' = nReads + 1

\* onChange of the hidden file input: the operator picked `file`.
handleFileUpload(file) ==
  /\ handleFileSelect(file)
  /\ UNCHANGED << selectedFile, result, alertMsg, blobRequests >>
  /\ UNCHANGED camVars
  /\ UNCHANGED subVars

\* The PreviewFile built by reader.onloadend; loadend also follows a failed
\* read, and then reader.result is null.
PreviewFile(file, readOk) ==
  [ name    |-> file.name,
    type    |-> file.type,
    size    |-> formatBytes(file.size),
    preview |-> IF readOk THEN DataURL(file) ELSE NullPreview ]

\* Mutant of onloadend: storing a new input also discards the held result.
onloadend_DiscardsResult(r, readOk) ==
  /\ r \in reads
  /\ selectedFile' = Some(PreviewFile(r.file, readOk))
  /\ result' = Null
  /\ reads' = reads \ {r}
  /\ UNCHANGED << nReads, alertMsg, blobRequests >>
  /\ UNCHANGED camVars
  /\ UNCHANGED subVars

\* Mutant of onloadend: a read that is not the most recently started one is
\* treated as stale and does not store its input.
onloadend_StaleDropped(r, readOk) ==
  /\ r \in reads
  /\ selectedFile' = IF r.id = nReads - 1
                       THEN Some(PreviewFile(r.file, readOk))
                       ELSE selectedFile
  /\ reads' = reads \ {r}
  /\ UNCHANGED << nReads, result, alertMsg, blobRequests >>
  /\ UNCHANGED camVars
  /\ UNCHANGED subVars

\* reader.onloadend of the read r.
onloadend(r, readOk) ==
  /\ r \in reads
  /\ selectedFile' = Some(PreviewFile(r.file, readOk))
  /\ reads' = reads \ {r}
  /\ UNCHANGED << nReads, result, alertMsg, blobRequests >>
  /\ UNCHANGED camVars
  /\ UNCHANGED subVars

\* ------------------------------------------------------------------ camera
\* The Cámara button: disabled={isCameraActive}.
CameraButtonEnabled == ~isCameraActive

\* activateCamera up to the await of getUserMedia.
activateCamera ==
  /\ CameraButtonEnabled
  /\ nCamRequests < MaxCamRequests
  /\ camRequests' = camRequests + 1
  /\ nCamRequests' = nCamRequests + 1
  /\ UNCHANGED << isCameraActive, srcObject, liveStreams >>
  /\ UNCHANGED << selectedFile, result, alertMsg, blobRequests >>
  /\ UNCHANGED readVars
  /\ UNCHANGED subVars

\* The stream a request settling now obtains (streams are numbered in the
\* order the requests settle).
NewStream == nCamRequests - camRequests

\* What activateCamera does with the stream once getUserMedia resolved.
BindStream(stream) ==
  IF videoRefCurrent
    THEN /\ srcObject' = Some(stream)
         /\ isCameraActive' = TRUE
    ELSE UNCHANGED << srcObject, isCameraActive >>

\* getUserMedia resolved: the try block of activateCamera after the await.
getUserMediaResolved ==
  /\ camRequests > 0
  /\ camRequests' = camRequests - 1
  /\ liveStreams' = liveStreams \cup {NewStream}
  /\ BindStream(NewStream)
  /\ UNCHANGED << nCamRequests, selectedFile, result, alertMsg, blobRequests >>
  /\ UNCHANGED readVars
  /\ UNCHANGED subVars

\* Mutant of getUserMediaRejected: the refusal is only logged, not shown.
getUserMediaRejected_NoAlert ==
  /\ camRequests > 0
  /\ camRequests' = camRequests - 1
  /\ UNCHANGED << nCamRequests, isCameraActive, srcObject, liveStreams >>
  /\ UNCHANGED << selectedFile, result, blobRequests, alertMsg >>
  /\ UNCHANGED readVars
  /\ UNCHANGED subVars

\* getUserMedia rejected (permission denied, no device): the catch block.
getUserMediaRejected ==
  /\ camRequests > 0
  /\ camRequests' = camRequests - 1
  /\ alertMsg' = CameraError
  /\ UNCHANGED << nCamRequests, isCameraActive, srcObject, liveStreams >>
  /\ UNCHANGED << selectedFile, result, blobRequests >>
  /\ UNCHANGED readVars
  /\ UNCHANGED subVars

\* stream?.getTracks().forEach(track => track.stop()) on the bound stream.
StopTracks(bound) ==
  liveStreams' = IF bound = Null THEN liveStreams ELSE liveStreams \ {Val(bound)}

\* captureImage, the Capturar button (rendered only when isCameraActive).
\* ctxOk: canvas.getContext('2d') returned a context.
captureImage(ctxOk) ==
  /\ isCameraActive
  /\ videoRefCurrent
  /\ blobRequests' = IF ctxOk THEN blobRequests + 1 ELSE blobRequests
  /\ StopTracks(srcObject)
  /\ isCameraActive' = FALSE
  /\ srcObject' = Null
  /\ UNCHANGED << camRequests, nCamRequests, selectedFile, result, alertMsg >>
  /\ UNCHANGED readVars
  /\ UNCHANGED subVars

\* The canvas.toBlob callback with an encoded frame of blobSize bytes.
toBlobCallback(blobSize) ==
  /\ blobRequests > 0
  /\ blobRequests' = blobRequests - 1
  /\ handleFileSelect(CaptureFile(blobSize))
  /\ UNCHANGED << selectedFile, result, alertMsg >>
  /\ UNCHANGED camVars
  /\ UNCHANGED subVars

\* The canvas.toBlob callback with blob = null (the frame could not be encoded).
toBlobCallbackNull ==
  /\ blobRequests > 0
  /\ blobRequests' = blobRequests - 1
  /\ UNCHANGED << selectedFile, result, alertMsg >>
  /\ UNCHANGED camVars
  /\ UNCHANGED readVars
  /\ UNCHANGED subVars

\* -------------------------------------------------------------- submission
\* Mutant of ProcessButtonEnabled: the button lacks disabled={isProcessing}.
ProcessButtonEnabled_NoDisabled == selectedFile # Null

\* The Procesar Documento button: rendered inside {selectedFile && ...},
\* disabled={isProcessing}.
ProcessButtonEnabled == selectedFile # Null /\ ~isProcessing

\* processDocument up to the first await: the busy flag is set and the call
\* keeps the selectedFile of the render in which the button was clicked.
processDocument ==
  /\ ProcessButtonEnabled
  /\ nSubmits < MaxSubmits
  /\ isProcessing' = TRUE
  /\ submissions' = submissions \cup
       {[ id      |-> nSubmits,
          stage   |-> "fetch",
          name    |-> Val(selectedFile).name,
          preview |-> Val(selectedFile).preview ]}
  /\ nSubmits' = nSubmits + 1
  /\ UNCHANGED << selectedFile, result, alertMsg, blobRequests >>
  /\ UNCHANGED camVars
  /\ UNCHANGED readVars

\* Mutant of issuePost: the form is built from the input held when the POST
\* is issued instead of the one held when the button was clicked.
issuePost_SendsCurrentInput(s) ==
  /\ s \in submissions
  /\ s.stage = "fetch"
  /\ submissions' = (submissions \ {s}) \cup
       {[s EXCEPT !.stage   = "post",
                  !.name    = Val(selectedFile).name,
                  !.preview = Val(selectedFile).preview]}
  /\ UNCHANGED << isProcessing, nSubmits >>
  /\ UNCHANGED << selectedFile, result, alertMsg, blobRequests >>
  /\ UNCHANGED camVars
  /\ UNCHANGED readVars

\* fetch(preview) and response.blob() resolved: the form is built with the
\* blob under the kept name and axios.post is issued.
issuePost(s) ==
  /\ s \in submissions
  /\ s.stage = "fetch"
  /\ submissions' = (submissions \ {s}) \cup {[s EXCEPT !.stage = "post"]}
  /\ UNCHANGED << isProcessing, nSubmits >>
  /\ UNCHANGED << selectedFile, result, alertMsg, blobRequests >>
  /\ UNCHANGED camVars
  /\ UNCHANGED readVars

\* The errors the try block can end with: responseMessage is
\* error.response?.data?.message, NoMessage when any link of the chain is absent.
\* throw new Error(result.data.message): an Error carries no response.
ThrownError(message) == [message |-> message, responseMessage |-> NoMessage]
\* The rejection of axios.post: a network error has no response, a non-2xx
\* answer carries the body of the server.
AxiosError(bodyMessage) == [message |-> "Request failed", responseMessage |-> bodyMessage]

\* The text of the catch block's alert.
CatchMessage(error) ==
  IF error.responseMessage # NoMessage THEN error.responseMessage ELSE GenericError

\* Mutant of Finally: the busy flag is not reset when the submission ends.
Finally_KeepsBusy(s) ==
  /\ submissions' = submissions \ {s}
  /\ UNCHANGED << isProcessing, nSubmits >>

\* finally { setIsProcessing(false) } of the submission s.
Finally(s) ==
  /\ isProcessing' = FALSE
  /\ submissions' = submissions \ {s}
  /\ UNCHANGED nSubmits

\* Mutant of Catch: the failure path also drops the input.
Catch_DropsInput(s, error) ==
  /\ alertMsg' = CatchMessage(error)
  /\ Finally(s)
  /\ selectedFile' = Null
  /\ UNCHANGED << result, blobRequests >>
  /\ UNCHANGED camVars
  /\ UNCHANGED readVars

\* catch + finally.
Catch(s, error) ==
  /\ alertMsg' = CatchMessage(error)
  /\ Finally(s)
  /\ UNCHANGED << selectedFile, result, blobRequests >>
  /\ UNCHANGED camVars
  /\ UNCHANGED readVars

\* fetch(preview) rejected. A data: URL is decoded locally; the preview of a
\* failed read is null, which fetch requests from the network as "null".
fetchRejected(s) ==
  /\ s \in submissions
  /\ s.stage = "fetch"
  /\ s.preview = NullPreview
  /\ Catch(s, AxiosError(NoMessage))

\* Mutant of postResolved: the form is reset after a success.
postResolved_ClearsInput(s, body) ==
  /\ s \in submissions
  /\ s.stage = "post"
  /\ result' = Some(body)
  /\ selectedFile' = Null
  /\ Finally(s)
  /\ UNCHANGED << alertMsg, blobRequests >>
  /\ UNCHANGED camVars
  /\ UNCHANGED readVars

\* axios.post resolved with the success envelope: setResult(result.data).
postResolved(s, body) ==
  /\ s \in submissions
  /\ s.stage = "post"
  /\ result' = Some(body)
  /\ Finally(s)
  /\ UNCHANGED << selectedFile, alertMsg, blobRequests >>
  /\ UNCHANGED camVars
  /\ UNCHANGED readVars

\* axios.post resolved (2xx) with {status: 'error', message}.
postResolvedError(s, message) ==
  /\ s \in submissions
  /\ s.stage = "post"
  /\ Catch(s, ThrownError(message))

\* axios.post rejected: network failure (no body) or a non-2xx answer whose
\* body has the message bodyMessage (NoMessage when it has none).
postRejected(s, bodyMessage) ==
  /\ s \in submissions
  /\ s.stage = "post"
  /\ Catch(s, AxiosError(bodyMessage))

\* ----------------------------------------------------------- specification
Next ==
  \/ \E file \in Files : handleFileUpload(file)
  \/ \E r \in reads, readOk \in BOOLEAN : onloadend(r, readOk)
  \/ activateCamera
  \/ getUserMediaResolved
  \/ getUserMediaRejected
  \/ processDocument
  \/ \E s \in submissions : issuePost(s)
  \/ \E s \in submissions : fetchRejected(s)
  \/ \E s \in submissions, body \in Responses : postResolved(s, body)
  \/ \E s \in submissions, message \in ServerMessages : postResolvedError(s, message)
  \/ \E s \in submissions, m \in ServerMessages \cup {NoMessage} : postRejected(s, m)

Spec == Init /\ [][Next]_vars

\* The promises a submission awaits settle: fetch(preview) resolves or
\* rejects, and axios.post returns or fails.
FetchSettles == \E s \in submissions : issuePost(s) \/ fetchRejected(s)
PostSettles ==
  \E s \in submissions :
    \/ \E body \in Responses : postResolved(s, body)
    \/ \E message \in ServerMessages : postResolvedError(s, message)
    \/ \E m \in ServerMessages \cup {NoMessage} : postRejected(s, m)

\* Spec under the assumption that every awaited promise of a submission settles.
SpecLive == Spec /\ WF_vars(FetchSettles) /\ WF_vars(PostSettles)

\* The page with the camera surface mounted: Next plus the capture handlers.
NextCam ==
  \/ Next
  \/ \E ctxOk \in BOOLEAN : captureImage(ctxOk)
  \/ \E blobSize \in BlobSizes : toBlobCallback(blobSize)
  \/ toBlobCallbackNull

SpecCam == InitCam /\ [][NextCam]_vars

\* Byte counts around every magnitude step of formatBytes, for the file the
\* operator picks in SpecFmt.
FmtSizes ==
  (0 .. 3) \cup {1023, 1024, 1025, 1152, 500000}
           \cup {1048575, 1048576, 1048577, 1572864}
           \cup {1073741823, 1073741824, 1073741825, 2147483647}

\* A picked file of the given size.
FmtFile(size) == [name |-> "a.jpg", type |-> "image/jpeg", size |-> size]

\* formatBytes exercised through the input path: a file of any of the sizes
\* is picked and its read completes, which stores formatBytes(file.size).
NextFmt ==
  \/ \E size \in FmtSizes : handleFileUpload(FmtFile(size))
  \/ \E r \in reads, readOk \in BOOLEAN : onloadend(r, readOk)

SpecFmt == Init /\ [][NextFmt]_vars

\* --------------------------------------------------------- result renderer
\* Values the service may give a nullable amount, in hundredths (céntimos):
\* absent, zero, and 10.50.
Amounts == {Null, Some(0), Some(1050)}

\* cliente.documento: null, or an object whose tipo and numero are nullable.
Documentos ==
  {Null} \cup { Some([tipo |-> t, numero |-> n]) :
                  t \in {Null, Some("DNI")}, n \in {Null, Some("12345678")} }

\* A receipt with every field detected (result.data.extractedData).
FullReceipt ==
  [ tipo_documento |-> "Factura",
    numero         |-> Some("F001-123"),
    fecha_emision  |-> Some("2024-01-31"),
    emisor         |-> [ruc |-> Some("20123456789"), razon_social |-> "ACME SAC"],
    cliente        |-> [nombre |-> Some("Ana"), documento |-> Some([tipo |-> Some("DNI"), numero |-> Some("12345678")])],
    totales        |-> [subtotal |-> Some(1050), igv |-> Some(1050), total |-> Some(1050)] ]

\* The receipts the service answers with in SpecRender: every combination of
\* absent, zero and positive totals, and every combination of absent and
\* present text fields and customer documents.
ExtractionResults ==
  { [FullReceipt EXCEPT !.totales = [subtotal |-> a, igv |-> b, total |-> c]] :
      a \in Amounts, b \in Amounts, c \in Amounts }
  \cup
  { [FullReceipt EXCEPT !.numero = n, !.fecha_emision = f, !.emisor.ruc = u,
                        !.cliente = [nombre |-> c, documento |-> d]] :
      n \in {Null, Some("F001-123")}, f \in {Null, Some("2024-01-31")},
      u \in {Null, Some("20123456789")}, c \in {Null, Some("Ana")}, d \in Documentos }

\* (n).toFixed(2) of an amount given in hundredths.
AmountToFixed2(hundredths) ==
  ToString(hundredths \div 100) \o "." \o
  (IF hundredths % 100 < 10 THEN "0" ELSE "") \o ToString(hundredths % 100)

\* `S/ ${n.toFixed(2)}`
Money(hundredths) == "S/ " \o AmountToFixed2(hundredths)

\* JavaScript truthiness of a nullable number and of a nullable string.
TruthyNumber(slot) == slot # Null /\ Val(slot) # 0
TruthyString(slot) == slot # Null /\ Val(slot) # ""

\* {x || 'placeholder'}
OrPlaceholder(slot, placeholder) == IF TruthyString(slot) THEN Val(slot) ELSE placeholder

\* {x ? `S/ ${x.toFixed(2)}` : 'placeholder'}
MoneyOrPlaceholder(slot, placeholder) ==
  IF TruthyNumber(slot) THEN Money(Val(slot)) ELSE placeholder

\* ${x} in a template literal: null is printed as the text "null".
TemplateText(slot) == IF slot = Null THEN "null" ELSE Val(slot)

\* {documento ? `${documento.tipo}: ${documento.numero}` : 'No detectado'}
RenderDocumento(documento) ==
  IF documento # Null
    THEN TemplateText(Val(documento).tipo) \o ": " \o TemplateText(Val(documento).numero)
    ELSE "No detectado"

\* The placeholder of each nullable field in the markup.
Placeholder ==
  [ numero |-> "No detectado", fecha_emision |-> "No detectada",
    ruc |-> "No detectado", nombre |-> "No detectado", documento |-> "No detectado",
    subtotal |-> "No detectado", igv |-> "No aplica", total |-> "No detectado" ]

\* The text shown for each nullable field of the held result.
Render(data) ==
  [ numero        |-> OrPlaceholder(data.numero, Placeholder.numero),
    fecha_emision |-> OrPlaceholder(data.fecha_emision, Placeholder.fecha_emision),
    ruc           |-> OrPlaceholder(data.emisor.ruc, Placeholder.ruc),
    nombre        |-> OrPlaceholder(data.cliente.nombre, Placeholder.nombre),
    documento     |-> RenderDocumento(data.cliente.documento),
    subtotal      |-> MoneyOrPlaceholder(data.totales.subtotal, Placeholder.subtotal),
    igv           |-> MoneyOrPlaceholder(data.totales.igv, Placeholder.igv),
    total         |-> MoneyOrPlaceholder(data.totales.total, Placeholder.total) ]

\* The renderer exercised through the submission path: an input is picked
\* and submitted, and the service answers with any of the receipts.
NextRender ==
  \/ \E file \in Files : handleFileUpload(file)
  \/ \E r \in reads, readOk \in BOOLEAN : onloadend(r, readOk)
  \/ processDocument
  \/ \E s \in submissions : issuePost(s)
  \/ \E s \in submissions, body \in ExtractionResults : postResolved(s, body)

SpecRender == Init /\ [][NextRender]_vars

\* ------------------------------------------------------------------ claims
\* The step in which the submission s ends in the catch block.
SubmissionFails(s) ==
  \/ fetchRejected(s)
  \/ \E message \in ServerMessages : postResolvedError(s, message)
  \/ \E m \in ServerMessages \cup {NoMessage} : postRejected(s, m)

\* C1: while a submission is in flight the submit trigger can do nothing
\* (the button that triggers it is disabled, so no step of processDocument is
\* possible), and at most one submission is in flight in every reachable state.
C1_SingleFlightSubmit ==
  /\ Cardinality(submissions) <= 1
  /\ submissions # {} => ~ENABLED processDocument

\* A submission whose POST is out, with an input held and submissions left
\* to start: only the disabled button keeps a second one from starting.
C1_Witness ==
  /\ \E s \in submissions : s.stage = "post"
  /\ selectedFile # Null
  /\ nSubmits < MaxSubmits

\* C2: a 2xx answer {status: "error", message: m} ends the submission as a
\* failure that stores no result and shows the operator the server's message m.
C2_EnvelopeMessageSurfaced ==
  [][\A s \in submissions, m \in ServerMessages :
       postResolvedError(s, m) => result' = result /\ alertMsg' = m]_vars

\* C3 as stated: when a submission fails an error is shown, the busy flag is
\* cleared and the held input is the one held when the submission started.
C3_InputSameAsSubmitted ==
  [][\A s \in submissions :
       SubmissionFails(s) =>
         /\ alertMsg' # NoAlert
         /\ ~isProcessing'
         /\ selectedFile' # Null
         /\ Val(selectedFile').name = s.name
         /\ Val(selectedFile').preview = s.preview]_vars

\* C3 amended: when a submission fails an error is shown, the busy flag is
\* cleared and the input slot is left exactly as the failure found it (never
\* emptied), so the submit button is enabled again.
C3_FailureKeepsInput ==
  [][\A s \in submissions :
       SubmissionFails(s) =>
         /\ alertMsg' \in ServerMessages \cup {GenericError}
         /\ ~isProcessing'
         /\ selectedFile' # Null
         /\ selectedFile' = selectedFile
         /\ ProcessButtonEnabled']_vars

\* A failed submission has ended: its alert is up, nothing is in flight and
\* the input is still held.
C3_Witness ==
  /\ alertMsg \in ServerMessages \cup {GenericError}
  /\ nSubmits > 0
  /\ submissions = {}
  /\ ~isProcessing
  /\ selectedFile # Null

\* C4: in no reachable state is an input held while a camera stream is live.
C4_NoInputWhileStreamLive == ~(selectedFile # Null /\ liveStreams # {})

C6_CameraRefusedStaysIdle ==
  [][(camRequests' = camRequests - 1 /\ liveStreams' = liveStreams) =>
       /\ ~isCameraActive'
       /\ isCameraActive' = isCameraActive
       /\ alertMsg' = CameraError
       /\ selectedFile' = selectedFile
       /\ reads' = reads
       /\ srcObject' = srcObject]_vars

\* A refusal has been shown with no input held and the camera inactive.
C6_Witness ==
  /\ alertMsg = CameraError
  /\ ~isCameraActive
  /\ selectedFile = Null
  /\ liveStreams = {}

\* C7: when a camera request started from Idle is granted, the stream is
\* bound to the video surface and the camera-active flag becomes true.
C7_GrantedEntersCameraActive ==
  [][getUserMediaResolved => isCameraActive' /\ srcObject' = Some(NewStream)]_vars

\* C8: a stream whose tracks have not been stopped exists only while the
\* camera-active flag is true and the stream is the one bound to the surface.
C8_NoDanglingStream ==
  \A stream \in liveStreams : isCameraActive /\ srcObject = Some(stream)

\* C9: when the read of a new input completes and the input is stored, no
\* result of an earlier submission remains held.
C9_NewInputDiscardsResult ==
  [][\A r \in reads, readOk \in BOOLEAN : onloadend(r, readOk) => result' = Null]_vars

\* C10: whenever a read ends, exactly that read leaves the set of reads in
\* flight (no other read is aborted) and the input slot holds its input,
\* whichever reads were started before or after it.
C10_LastCompletedReadWins ==
  [][(reads' # reads /\ nReads' = nReads) =>
       \E r \in reads :
         /\ reads' = reads \ {r}
         /\ \E readOk \in BOOLEAN : selectedFile' = Some(PreviewFile(r.file, readOk))]_vars

\* Two reads were started, the second has completed and is held while the
\* first is still in flight.
C10_Witness ==
  /\ nReads = 2
  /\ \E r \in reads : r.id = 0
  /\ Cardinality(reads) = 1
  /\ selectedFile # Null

\* C11: every submission that starts eventually ends with nothing in flight
\* and the busy flag cleared, whichever way its network call ends.
C11_NeverStuckSubmitting ==
  (submissions # {}) ~> (submissions = {} /\ ~isProcessing)

\* A submission has ended on the success path: its result is held, nothing
\* is in flight and the busy flag is clear.
C11_Witness ==
  /\ nSubmits > 0
  /\ result # Null
  /\ submissions = {}
  /\ ~isProcessing

\* C12: the size shown for every held input has one of the units Bytes, KB,
\* MB (also from 1 GB upwards), and zero bytes format as "0 KB".
C12_UnitIsBytesKBorMB ==
  /\ formatBytes(0) = [hundredths |-> 0, unit |-> "KB"]
  /\ selectedFile # Null => Val(selectedFile).size.unit \in {"Bytes", "KB", "MB"}

\* The text str contains the text sub.
Contains(str, sub) ==
  \E i \in 1 .. (Len(str) + 1 - Len(sub)) : SubSeq(str, i, i + Len(sub) - 1) = sub

\* C13: each of subtotal, igv and total of the held result is shown in the
\* money format whenever it is non-null (zero included) and as the field's
\* placeholder exactly when it is null.
C13_TotalsMoneyOrPlaceholder ==
  result # Null =>
    \A f \in {"subtotal", "igv", "total"} :
      LET amount == Val(result).totales[f]
          shown  == Render(Val(result))[f]
      IN  /\ amount # Null => shown = Money(Val(amount))
          /\ shown = Placeholder[f] <=> amount = Null

\* C14: every nullable field of the held result that is null is shown as its
\* placeholder, and no field (the customer document included) is shown blank
\* or containing the text "null".
C14_NullShownAsPlaceholder ==
  result # Null =>
    LET data  == Val(result)
        shown == Render(data)
        value == [ numero |-> data.numero, fecha_emision |-> data.fecha_emision,
                   ruc |-> data.emisor.ruc, nombre |-> data.cliente.nombre,
                   documento |-> data.cliente.documento,
                   subtotal |-> data.totales.subtotal, igv |-> data.totales.igv,
                   total |-> data.totales.total ]
    IN  \A f \in DOMAIN Placeholder :
          /\ value[f] = Null => shown[f] = Placeholder[f]
          /\ shown[f] # ""
          /\ ~Contains(shown[f], "null")

\* C15: the conditions that define different session states never hold
\* together: no submission in flight while a result is held or the camera is
\* active, and no camera active while a result is held.
C15_ExclusiveStates ==
  /\ ~(isProcessing /\ result # Null)
  /\ ~(isProcessing /\ isCameraActive)
  /\ ~(isCameraActive /\ result # Null)

\* C16: at most one camera request is outstanding and at most one camera
\* stream is live in every reachable state.
C16_SingleFlightCamera ==
  /\ camRequests <= 1
  /\ Cardinality(liveStreams) <= 1

\* C17: after every step a submission in flight implies an input is held, an
\* input slot that held an input still holds one, and with no input held no
\* submission has been started.
C17_SubmissionHasInput ==
  [][/\ submissions' # {} => selectedFile' # Null
     /\ selectedFile # Null => selectedFile' # Null
     /\ selectedFile = Null => submissions' = submissions]_vars

\* A submission is in flight with an input held while the read of a newer
\* input is still pending.
C17_Witness ==
  /\ submissions # {}
  /\ selectedFile # Null
  /\ reads # {}

\* C18: the held result changes only in the step in which a submission whose
\* POST is out ends, the busy flag is cleared and the result becomes the
\* response of the service; a failing submission leaves it unchanged.
C18_ResultChangesOnlyOnSuccess ==
  [][/\ result' # result =>
          \E s \in submissions, body \in Responses :
            /\ s.stage = "post"
            /\ submissions' = submissions \ {s}
            /\ ~isProcessing'
            /\ alertMsg' = alertMsg
            /\ result' = Some(body)
     /\ \A s \in submissions : SubmissionFails(s) => result' = result]_vars

\* A result is held after the frame was captured (the stream is stopped and
\* the flag cleared), an input stored and an error shown.
C18_Witness ==
  /\ result # Null
  /\ ~isCameraActive
  /\ liveStreams = {}
  /\ selectedFile # Null
  /\ alertMsg \in ServerMessages \cup {GenericError}

\* C19: a submission that starts carries the name and payload of the input
\* held at that moment, and keeps them unchanged for as long as it is in
\* flight, whatever is stored in the input slot meanwhile.
C19_SendsInputHeldAtTrigger ==
  [][\A t \in submissions' :
       IF \E s \in submissions : s.id = t.id
         THEN \A s \in submissions :
                s.id = t.id => t.name = s.name /\ t.preview = s.preview
         ELSE /\ selectedFile # Null
              /\ t.name = Val(selectedFile).name
              /\ t.preview = Val(selectedFile).preview]_vars

\* The POST of a submission is out while the input slot already holds
\* another input than the one being sent.
C19_Witness ==
  /\ selectedFile # Null
  /\ \E s \in submissions :
       /\ s.stage = "post"
       /\ s.name # Val(selectedFile).name

====
